---- MODULE Spec2Model ----
(***************************************************************************)
(* Model of src/index.ts: the Durable Object class MyDurableObject and its *)
(* single RPC method getCounter, which keeps a two-slot Fibonacci-style    *)
(* sequence ('current', 'previous') in the object's durable storage.       *)
(*                                                                         *)
(* One instance of the class exists per name; each instance has its own   *)
(* storage.  An invocation of getCounter is a chain of four awaited        *)
(* storage operations; every await is a step of the model, and every       *)
(* storage operation may fail (the exception then propagates out of        *)
(* getCounter, since the method has no try/catch).                         *)
(***************************************************************************)
EXTENDS Integers, Sequences, FiniteSets, TLC

(* ---------------------------- bounds ---------------------------------- *)
\* number of client connections that may have a call in flight at once
NumCallers == 2
\* total number of getCounter invocations started in one behaviour
MaxCalls == 5
\* largest value Date.now() returns
MaxClock == 1
\* total number of invocations started when calls go to several names
MaxNamedCalls == 3
\* total number of invocations started in the behaviours checked for progress
MaxLiveCalls == 3

Callers   == 1..NumCallers
\* names of instances of the class; each has its own storage
Names     == {"foo", "bar"}
\* the name the fetch handler hands to getByName (line 125)
FetchName == "foo"
\* LocationInfo payloads (opaque to getCounter)
Locations == {"LHR", "Unknown"}
\* url.pathname of the requests
Paths     == {"/message", "/"}
\* the body of the Response for every path but '/message' (line 135)
RunningText == "Durable Object is running"

(* ------------------------ data (index.ts 28-37) ------------------------ *)
\* what storage.get resolves to for a key that was never written
Undefined == [undefined |-> TRUE]
\* the null of ResponseData.previous
Null == [null |-> TRUE]

StoredData(c, l, t) == [counter |-> c, location |-> l, timestamp |-> t]

ResponseData(cur, prev) == [current |-> cur, previous |-> prev]

\* JavaScript truthiness of a value read from storage: an object is truthy,
\* undefined is falsy
Truthy(v) == v # Undefined

VARIABLES
    storage,          \* storage[n][k]: durable slot k of the instance named n
    pc,               \* pc[c]: the await the call of caller c is suspended at
    self,             \* self[c]: the instance (name) the call of c runs on
    locationInfo,     \* argument of the call of c
    currentData,      \* local of the call of c
    previousData,     \* local of the call of c
    newCurrentData,   \* local of the call of c
    lastResponse,     \* lastResponse[n]: what the promise of the last call delivered to n settled to
    clock,            \* the last value Date.now() returned
    calls,            \* number of invocations started
    lastHttp,         \* body of the last Response the fetch handler produced
    issued,           \* history: issued[c] = storage operations the call of c issued, in order
    lastContext,      \* history: lastContext[n] = locationInfo of the last call on n that resolved
    atStart,          \* history: atStart[c] = storage of self[c] when the call began
    returned,         \* history: returned[n] = current.counter of the successful calls on n, in order
    shiftedFrom,      \* history: 'current' record read by the call that wrote storage[n].current
    torn,             \* history: torn[n] = some call on n failed between its two puts
    pathname,         \* url.pathname of the last request the fetch handler received
    messageRequests   \* history: number of requests received with path '/message'

vars == <<storage, pc, self, locationInfo, currentData, previousData,
          newCurrentData, lastResponse, clock, calls, lastHttp, issued,
          lastContext, atStart, returned, shiftedFrom, torn,
          pathname, messageRequests>>

locals == <<currentData, previousData, newCurrentData>>
ghosts == <<returned, shiftedFrom, torn, lastContext>>
requests == <<pathname, messageRequests>>

Keys == {"current", "previous"}
EmptyStorage == [k \in Keys |-> Undefined]

\* a storage operation on key k, as the call issues it
Get(k) == <<"get", k>>
Put(k) == <<"put", k>>

\* the promise of stub.getCounter: not settled yet, or rejected with the
\* error of the storage operation awaited at label p
NoResponse == [none |-> TRUE]
Rejected(p) == [error |-> p]

Init ==
    /\ storage = [n \in Names |-> EmptyStorage]
    /\ pc = [c \in Callers |-> "idle"]
    /\ self = [c \in Callers |-> FetchName]
    /\ locationInfo = [c \in Callers |-> "Unknown"]
    /\ currentData = [c \in Callers |-> Undefined]
    /\ previousData = [c \in Callers |-> Undefined]
    /\ newCurrentData = [c \in Callers |-> Undefined]
    /\ lastResponse = [n \in Names |-> NoResponse]
    /\ clock = 0
    /\ calls = 0
    /\ lastHttp = "none"
    /\ issued = [c \in Callers |-> <<>>]
    /\ lastContext = [n \in Names |-> "none"]
    /\ atStart = [c \in Callers |-> EmptyStorage]
    /\ returned = [n \in Names |-> <<>>]
    /\ shiftedFrom = [n \in Names |-> Undefined]
    /\ torn = [n \in Names |-> FALSE]
    /\ pathname = "none"
    /\ messageRequests = 0

(* --------------------- the runtime's input gate ------------------------ *)
\* the awaits of getCounter, in program order
Awaits == {"getCurrent", "getPrevious", "putPrevious", "putCurrent"}

\* variant of AwaitsStorage: between the two gets the call awaits some
\* other I/O (a fetch, a timer) instead of going straight to storage
AwaitsStorageOtherIOBetweenGets(p) == p \in {"getCurrent", "putPrevious", "putCurrent"}

\* whether the promise awaited at label p is a storage operation
\* (this.ctx.storage.get / this.ctx.storage.put) rather than other I/O
AwaitsStorage(p) == p \in {"getCurrent", "getPrevious", "putPrevious", "putCurrent"}

\* While a call on instance n waits for a storage operation, the runtime
\* delivers no other event (new call, or completion of other I/O) to n.
InputGateOpen(n) ==
    \A d \in Callers : (self[d] = n /\ pc[d] \in Awaits) => ~AwaitsStorage(pc[d])

\* the completion of the await caller c is suspended at can be delivered
Deliverable(c) ==
    AwaitsStorage(pc[c]) \/ InputGateOpen(self[c])

(* ------------------------- getCounter (57-92) -------------------------- *)
\* variant of PrevCounter: previousData is ignored
PrevCounterAlwaysOne(prev) == 1

\* variant of PrevCounter: no fallback for an absent 'previous'
PrevCounterNoFallback(prev) == IF Truthy(prev) THEN prev.counter ELSE 0

\* const prevCounter = previousData?.counter || 1   (line 69)
PrevCounter(prev) ==
    IF ~Truthy(prev) THEN 1
    ELSE IF prev.counter = 0 THEN 1 ELSE prev.counter

\* variant of NextCounter: the first record is seeded with 1
NextCounterSeedOne(cur, prev) ==
    IF Truthy(cur) THEN PrevCounter(prev) + cur.counter ELSE 1

\* variant of NextCounter: adds previous_counter (line 68, the counter of
\* currentData) in place of prevCounter
NextCounterAddsPreviousCounter(cur, prev) ==
    IF Truthy(cur) THEN cur.counter + cur.counter ELSE 2

\* variant of NextCounter: an existing counter is returned as it is
NextCounterReadsOnly(cur, prev) ==
    IF Truthy(cur) THEN cur.counter ELSE 2

\* variant of NextCounter: the first record is seeded with 0
NextCounterSeedZero(cur, prev) ==
    IF Truthy(cur) THEN PrevCounter(prev) + cur.counter ELSE 0

\* lines 63-71: the counter of the new record
NextCounter(cur, prev) ==
    IF Truthy(cur) THEN PrevCounter(prev) + cur.counter ELSE 2

\* line 90: currentData || null
ReturnedPrevious(cur) == IF Truthy(cur) THEN cur ELSE Null

\* the call of caller c is over: its locals are gone
Finish(c) ==
    /\ pc' = [pc EXCEPT ![c] = "idle"]
    /\ self' = [self EXCEPT ![c] = FetchName]
    /\ locationInfo' = [locationInfo EXCEPT ![c] = "Unknown"]
    /\ currentData' = [currentData EXCEPT ![c] = Undefined]
    /\ previousData' = [previousData EXCEPT ![c] = Undefined]
    /\ newCurrentData' = [newCurrentData EXCEPT ![c] = Undefined]
    /\ atStart' = [atStart EXCEPT ![c] = EmptyStorage]
    /\ issued' = [issued EXCEPT ![c] = <<>>]
    /\ UNCHANGED requests

\* the exception of a failed storage operation leaves getCounter (the
\* method has no try/catch) and rejects the caller's promise
Throw(c) ==
    /\ lastResponse' = [lastResponse EXCEPT ![self[c]] = Rejected(pc[c])]
    /\ lastHttp' = "error"
    /\ Finish(c)

\* stub.getCounter(locationInfo): caller c sends the call to the instance
\* named n, where it waits to be delivered
Call(c, n, loc) ==
    /\ pc[c] = "idle"
    /\ calls < MaxCalls
    /\ calls' = calls + 1
    /\ pc' = [pc EXCEPT ![c] = "called"]
    /\ self' = [self EXCEPT ![c] = n]
    /\ locationInfo' = [locationInfo EXCEPT ![c] = loc]
    /\ UNCHANGED <<storage, locals, lastResponse, clock, lastHttp, issued,
                   atStart, ghosts>>

\* request.cf: missing, or an object whose field is set or empty.  The eight
\* fields of LocationInfo are built by the same rule (lines 110-117); one
\* field, city, stands for the record.
CfValues == {Undefined, [city |-> "LHR"], [city |-> ""]}

\* lines 109-118: cf?.city || 'Unknown'
LocationInfoOf(cf) ==
    IF cf = Undefined THEN "Unknown"
    ELSE IF cf.city = "" THEN "Unknown" ELSE cf.city

\* variant of Fetch: getCounter is called before the path is looked at
FetchCallsBeforeRouting(c, path, cf) ==
    /\ Call(c, FetchName, LocationInfoOf(cf))
    /\ pathname' = path
    /\ messageRequests' = IF path = "/message" THEN messageRequests + 1
                          ELSE messageRequests

\* the fetch handler (lines 104-136) up to its await: for '/message' it calls
\* getCounter on the instance named "foo"; for any other path it answers
\* with the fixed text
Fetch(c, path, cf) ==
    IF path = "/message"
    THEN /\ Call(c, FetchName, LocationInfoOf(cf))
         /\ pathname' = path
         /\ messageRequests' = messageRequests + 1
    ELSE /\ pc[c] = "idle"
         /\ lastHttp' = RunningText
         /\ pathname' = path
         /\ UNCHANGED <<storage, pc, self, locationInfo, locals, lastResponse,
                        clock, calls, issued, atStart, ghosts, messageRequests>>

\* the call is delivered to the instance and getCounter runs up to its
\* first await, storage.get('current')  (line 59)
Deliver(c) ==
    /\ pc[c] = "called"
    /\ InputGateOpen(self[c])
    /\ pc' = [pc EXCEPT ![c] = "getCurrent"]
    /\ lastResponse' = [lastResponse EXCEPT ![self[c]] = NoResponse]
    /\ atStart' = [atStart EXCEPT ![c] = storage[self[c]]]
    /\ issued' = [issued EXCEPT ![c] = <<Get("current")>>]
    /\ UNCHANGED requests
    /\ UNCHANGED <<storage, self, locationInfo, locals, clock, calls, lastHttp,
                   ghosts>>

\* variant of GetCurrent: the shift of line 82 is done before 'previous'
\* has been read
GetCurrentThenShifts(c) ==
    /\ pc[c] = "getCurrent"
    /\ Deliverable(c)
    /\ currentData' = [currentData EXCEPT ![c] = storage[self[c]]["current"]]
    /\ storage' = [storage EXCEPT ![self[c]]["previous"] =
           IF Truthy(storage[self[c]]["current"]) THEN storage[self[c]]["current"] ELSE @]
    /\ pc' = [pc EXCEPT ![c] = "getPrevious"]
    /\ issued' = [issued EXCEPT ![c] = Append(@, Get("previous"))]
    /\ UNCHANGED requests
    /\ UNCHANGED <<self, locationInfo, previousData, newCurrentData,
                   lastResponse, clock, calls, lastHttp, atStart, ghosts>>

\* line 59 resolves; line 60 issues storage.get('previous')
GetCurrent(c) ==
    /\ pc[c] = "getCurrent"
    /\ Deliverable(c)
    /\ currentData' = [currentData EXCEPT ![c] = storage[self[c]]["current"]]
    /\ pc' = [pc EXCEPT ![c] = "getPrevious"]
    /\ issued' = [issued EXCEPT ![c] = Append(@, Get("previous"))]
    /\ UNCHANGED requests
    /\ UNCHANGED <<storage, self, locationInfo, previousData, newCurrentData,
                   lastResponse, clock, calls, lastHttp, atStart, ghosts>>

\* line 59 rejects
GetCurrentFails(c) ==
    /\ pc[c] = "getCurrent"
    /\ Deliverable(c)
    /\ Throw(c)
    /\ UNCHANGED <<storage, clock, calls, ghosts>>

\* variant of GetPrevious: the new record is built from the old one and
\* keeps its location
GetPreviousKeepsOldLocation(c, now) ==
    /\ pc[c] = "getPrevious"
    /\ Deliverable(c)
    /\ now >= clock
    /\ LET prev == storage[self[c]]["previous"]
           cur  == currentData[c]
       IN  /\ previousData' = [previousData EXCEPT ![c] = prev]
           /\ newCurrentData' = [newCurrentData EXCEPT ![c] =
                  StoredData(NextCounter(cur, prev),
                             IF Truthy(cur) THEN cur.location ELSE locationInfo[c], now)]
           /\ pc' = [pc EXCEPT ![c] =
                  IF Truthy(cur) THEN "putPrevious" ELSE "putCurrent"]
           /\ issued' = [issued EXCEPT ![c] =
                  Append(@, IF Truthy(cur) THEN Put("previous") ELSE Put("current"))]
    /\ clock' = now
    /\ UNCHANGED requests
    /\ UNCHANGED <<storage, self, locationInfo, currentData, lastResponse,
                   calls, lastHttp, atStart, ghosts>>

\* variant of GetPrevious: the timestamp comes from a time source that
\* wraps around (a time of day) instead of Date.now()
GetPreviousWrappingClock(c, now) ==
    /\ pc[c] = "getPrevious"
    /\ Deliverable(c)
    /\ now >= clock
    /\ LET prev == storage[self[c]]["previous"]
           cur  == currentData[c]
       IN  /\ previousData' = [previousData EXCEPT ![c] = prev]
           /\ newCurrentData' = [newCurrentData EXCEPT ![c] =
                  StoredData(NextCounter(cur, prev), locationInfo[c],
                             (now + 1) % (MaxClock + 1))]
           /\ pc' = [pc EXCEPT ![c] =
                  IF Truthy(cur) THEN "putPrevious" ELSE "putCurrent"]
           /\ issued' = [issued EXCEPT ![c] =
                  Append(@, IF Truthy(cur) THEN Put("previous") ELSE Put("current"))]
    /\ clock' = now
    /\ UNCHANGED requests
    /\ UNCHANGED <<storage, self, locationInfo, currentData, lastResponse,
                   calls, lastHttp, atStart, ghosts>>

\* variant of GetPrevious: line 82 is not guarded by if (currentData)
GetPreviousAlwaysShifts(c, now) ==
    /\ pc[c] = "getPrevious"
    /\ Deliverable(c)
    /\ now >= clock
    /\ LET prev == storage[self[c]]["previous"]
           cur  == currentData[c]
       IN  /\ previousData' = [previousData EXCEPT ![c] = prev]
           /\ newCurrentData' = [newCurrentData EXCEPT ![c] =
                  StoredData(NextCounter(cur, prev), locationInfo[c], now)]
           /\ pc' = [pc EXCEPT ![c] = "putPrevious"]
           /\ issued' = [issued EXCEPT ![c] = Append(@, Put("previous"))]
    /\ clock' = now
    /\ UNCHANGED requests
    /\ UNCHANGED <<storage, self, locationInfo, currentData, lastResponse,
                   calls, lastHttp, atStart, ghosts>>

\* variant of GetPrevious: on the first run a record for the initial
\* previous_counter (line 63) is stored under 'previous'
GetPreviousSeedsPrevious(c, now) ==
    /\ pc[c] = "getPrevious"
    /\ Deliverable(c)
    /\ now >= clock
    /\ LET prev == storage[self[c]]["previous"]
           cur  == currentData[c]
       IN  /\ previousData' = [previousData EXCEPT ![c] = prev]
           /\ newCurrentData' = [newCurrentData EXCEPT ![c] =
                  StoredData(NextCounter(cur, prev), locationInfo[c], now)]
           /\ currentData' = [currentData EXCEPT ![c] =
                  IF Truthy(cur) THEN cur ELSE StoredData(1, locationInfo[c], now)]
           /\ pc' = [pc EXCEPT ![c] = "putPrevious"]
           /\ issued' = [issued EXCEPT ![c] = Append(@, Put("previous"))]
    /\ clock' = now
    /\ UNCHANGED requests
    /\ UNCHANGED <<storage, self, locationInfo, lastResponse,
                   calls, lastHttp, atStart, ghosts>>

\* line 60 resolves; lines 63-78 run (Date.now() returns now); then line 82
\* issues storage.put('previous', currentData) if currentData is truthy,
\* else line 86 issues storage.put('current', newCurrentData)
GetPrevious(c, now) ==
    /\ pc[c] = "getPrevious"
    /\ Deliverable(c)
    /\ now >= clock
    /\ LET prev == storage[self[c]]["previous"]
           cur  == currentData[c]
       IN  /\ previousData' = [previousData EXCEPT ![c] = prev]
           /\ newCurrentData' = [newCurrentData EXCEPT ![c] =
                  StoredData(NextCounter(cur, prev), locationInfo[c], now)]
           /\ pc' = [pc EXCEPT ![c] =
                  IF Truthy(cur) THEN "putPrevious" ELSE "putCurrent"]
           /\ issued' = [issued EXCEPT ![c] =
                  Append(@, IF Truthy(cur) THEN Put("previous") ELSE Put("current"))]
    /\ clock' = now
    /\ UNCHANGED requests
    /\ UNCHANGED <<storage, self, locationInfo, currentData, lastResponse,
                   calls, lastHttp, atStart, ghosts>>

\* line 60 rejects
GetPreviousFails(c) ==
    /\ pc[c] = "getPrevious"
    /\ Deliverable(c)
    /\ Throw(c)
    /\ UNCHANGED <<storage, clock, calls, ghosts>>

\* variant of PutPrevious: the new record is stored under 'previous'
PutPreviousWritesNew(c) ==
    /\ pc[c] = "putPrevious"
    /\ Deliverable(c)
    /\ storage' = [storage EXCEPT ![self[c]]["previous"] = newCurrentData[c]]
    /\ pc' = [pc EXCEPT ![c] = "putCurrent"]
    /\ issued' = [issued EXCEPT ![c] = Append(@, Put("current"))]
    /\ UNCHANGED requests
    /\ UNCHANGED <<self, locationInfo, locals, lastResponse, clock, calls,
                   lastHttp, atStart, ghosts>>

\* variant of PutPrevious: the old current record is not stored
PutPreviousLost(c) ==
    /\ pc[c] = "putPrevious"
    /\ Deliverable(c)
    /\ pc' = [pc EXCEPT ![c] = "putCurrent"]
    /\ issued' = [issued EXCEPT ![c] = Append(@, Put("current"))]
    /\ UNCHANGED requests
    /\ UNCHANGED <<storage, self, locationInfo, locals, lastResponse, clock,
                   calls, lastHttp, atStart, ghosts>>

\* variant of PutPrevious: previousData is written back in place of
\* currentData
PutPreviousWritesPreviousData(c) ==
    /\ pc[c] = "putPrevious"
    /\ Deliverable(c)
    /\ storage' = [storage EXCEPT ![self[c]]["previous"] = previousData[c]]
    /\ pc' = [pc EXCEPT ![c] = "putCurrent"]
    /\ issued' = [issued EXCEPT ![c] = Append(@, Put("current"))]
    /\ UNCHANGED requests
    /\ UNCHANGED <<self, locationInfo, locals, lastResponse, clock, calls,
                   lastHttp, atStart, ghosts>>

\* line 82 resolves; line 86 issues storage.put('current', newCurrentData)
PutPrevious(c) ==
    /\ pc[c] = "putPrevious"
    /\ Deliverable(c)
    /\ storage' = [storage EXCEPT ![self[c]]["previous"] = currentData[c]]
    /\ pc' = [pc EXCEPT ![c] = "putCurrent"]
    /\ issued' = [issued EXCEPT ![c] = Append(@, Put("current"))]
    /\ UNCHANGED requests
    /\ UNCHANGED <<self, locationInfo, locals, lastResponse, clock, calls,
                   lastHttp, atStart, ghosts>>

\* line 82 rejects: nothing was written
PutPreviousFails(c) ==
    /\ pc[c] = "putPrevious"
    /\ Deliverable(c)
    /\ Throw(c)
    /\ UNCHANGED <<storage, clock, calls, ghosts>>

\* variant of PutCurrent: the response carries previousData, the record
\* read from the 'previous' slot, in place of currentData
PutCurrentReturnsPreviousData(c) ==
    /\ pc[c] = "putCurrent"
    /\ Deliverable(c)
    /\ storage' = [storage EXCEPT ![self[c]]["current"] = newCurrentData[c]]
    /\ lastResponse' = [lastResponse EXCEPT ![self[c]] =
           ResponseData(newCurrentData[c], ReturnedPrevious(previousData[c]))]
    /\ returned' = [returned EXCEPT ![self[c]] = Append(@, newCurrentData[c].counter)]
    /\ shiftedFrom' = [shiftedFrom EXCEPT ![self[c]] = currentData[c]]
    /\ lastContext' = [lastContext EXCEPT ![self[c]] = locationInfo[c]]
    /\ lastHttp' = "json"
    /\ Finish(c)
    /\ UNCHANGED <<clock, calls, torn>>

\* variant of PutCurrent: the record goes to one store shared by all names
PutCurrentWritesSharedStore(c) ==
    /\ pc[c] = "putCurrent"
    /\ Deliverable(c)
    /\ storage' = [storage EXCEPT ![FetchName]["current"] = newCurrentData[c]]
    /\ lastResponse' = [lastResponse EXCEPT ![self[c]] =
           ResponseData(newCurrentData[c], ReturnedPrevious(currentData[c]))]
    /\ returned' = [returned EXCEPT ![self[c]] = Append(@, newCurrentData[c].counter)]
    /\ shiftedFrom' = [shiftedFrom EXCEPT ![self[c]] = currentData[c]]
    /\ lastContext' = [lastContext EXCEPT ![self[c]] = locationInfo[c]]
    /\ lastHttp' = "json"
    /\ Finish(c)
    /\ UNCHANGED <<clock, calls, torn>>

\* line 86 resolves; lines 88-91 return the response
PutCurrent(c) ==
    /\ pc[c] = "putCurrent"
    /\ Deliverable(c)
    /\ storage' = [storage EXCEPT ![self[c]]["current"] = newCurrentData[c]]
    /\ lastResponse' = [lastResponse EXCEPT ![self[c]] =
           ResponseData(newCurrentData[c], ReturnedPrevious(currentData[c]))]
    /\ returned' = [returned EXCEPT ![self[c]] = Append(@, newCurrentData[c].counter)]
    /\ shiftedFrom' = [shiftedFrom EXCEPT ![self[c]] = currentData[c]]
    /\ lastContext' = [lastContext EXCEPT ![self[c]] = locationInfo[c]]
    /\ lastHttp' = "json"
    /\ Finish(c)
    /\ UNCHANGED <<clock, calls, torn>>

\* line 86 rejects: 'current' keeps its record, line 82 is not undone
PutCurrentFails(c) ==
    /\ pc[c] = "putCurrent"
    /\ Deliverable(c)
    /\ Throw(c)
    /\ torn' = [torn EXCEPT ![self[c]] = @ \/ Truthy(currentData[c])]
    /\ UNCHANGED <<storage, clock, calls, returned, shiftedFrom, lastContext>>

Next ==
    \E c \in Callers :
        \/ \E path \in Paths, cf \in CfValues : Fetch(c, path, cf)
        \/ Deliver(c)
        \/ GetCurrent(c)
        \/ GetCurrentFails(c)
        \/ \E now \in 0..MaxClock : GetPrevious(c, now)
        \/ GetPreviousFails(c)
        \/ PutPrevious(c)
        \/ PutPreviousFails(c)
        \/ PutCurrent(c)
        \/ PutCurrentFails(c)

Spec == Init /\ [][Next]_vars

\* a step of the call of caller c in which the awaited operation succeeds
Advance(c) ==
    \/ GetCurrent(c)
    \/ \E now \in 0..MaxClock : GetPrevious(c, now)
    \/ PutPrevious(c)
    \/ PutCurrent(c)

\* The runtime delivers the calls queued at an instance in turn whenever its
\* gate is open, and a storage operation that does not reject resolves.
NextLive ==
    \E c \in Callers :
        \/ \E path \in Paths, cf \in CfValues :
               calls < MaxLiveCalls /\ Fetch(c, path, cf)
        \/ Deliver(c)
        \/ GetCurrent(c)
        \/ GetCurrentFails(c)
        \/ \E now \in 0..MaxClock : GetPrevious(c, now)
        \/ GetPreviousFails(c)
        \/ PutPrevious(c)
        \/ PutPreviousFails(c)
        \/ PutCurrent(c)
        \/ PutCurrentFails(c)

FairSpec ==
    /\ Init
    /\ [][NextLive]_vars
    /\ \A c \in Callers : SF_vars(Deliver(c)) /\ WF_vars(Advance(c))

\* the class bound under several names: callers reach getCounter on any
\* instance through a stub of that name
NextNames ==
    \E c \in Callers :
        \/ \E n \in Names, loc \in Locations :
               calls < MaxNamedCalls /\ Call(c, n, loc) /\ UNCHANGED requests
        \/ Deliver(c)
        \/ GetCurrent(c)
        \/ GetCurrentFails(c)
        \/ \E now \in 0..MaxClock : GetPrevious(c, now)
        \/ GetPreviousFails(c)
        \/ PutPrevious(c)
        \/ PutPreviousFails(c)
        \/ PutCurrent(c)
        \/ PutCurrentFails(c)

SpecNames == Init /\ [][NextNames]_vars

TypeOK ==
    /\ pc \in [Callers -> Awaits \cup {"idle", "called"}]
    /\ self \in [Callers -> Names]
    /\ calls \in 0..MaxCalls
    /\ clock \in 0..MaxClock
    /\ lastHttp \in {"none", "error", "json", RunningText}
    /\ \A c \in Callers : locationInfo[c] \in Locations
    /\ pathname \in Paths \cup {"none"}
    /\ messageRequests \in 0..MaxCalls

(* ===================== vocabulary of the properties ==================== *)
IsResponse(v) == "current" \in DOMAIN v

\* the step in which the call of caller c resolves with a response
Resolves(c) ==
    /\ pc[c] = "putCurrent"
    /\ lastResponse[self[c]] = NoResponse
    /\ IsResponse(lastResponse'[self[c]])

\* the step in which the storage operation awaited by the call of caller c
\* at a label in ls rejects
RejectsAt(c, ls) ==
    /\ pc[c] \in ls
    /\ lastResponse[self[c]] = NoResponse
    /\ lastResponse'[self[c]] = Rejected(pc[c])

\* no call is executing on the instance named n
Quiescent(n) == \A c \in Callers : pc[c] \in Awaits => self[c] # n

\* the sequence r follows the recurrence seeded with 2, 3
IsFib(r) ==
    \A i \in 1..Len(r) :
        r[i] = IF i = 1 THEN 2 ELSE IF i = 2 THEN 3 ELSE r[i-1] + r[i-2]

(* ------------------------------- C1 ------------------------------------ *)
\* C1: on a sequence that starts from empty storage, as long as no call has
\* failed between its two puts, the current.counter values returned by the
\* successive calls are 2, 3, and from the third on the sum of the two
\* values returned before (2, 3, 5, 8, 13, ...); the third response carries
\* current.counter 5 and previous.counter 3.
C1_FibonacciRecurrence ==
    \A n \in Names :
        ~torn[n] =>
            /\ IsFib(returned[n])
            /\ (Len(returned[n]) = 3 /\ IsResponse(lastResponse[n])) =>
                   /\ lastResponse[n].current.counter = 5
                   /\ lastResponse[n].previous # Null
                   /\ lastResponse[n].previous.counter = 3

C1_Witness ==
    /\ returned["foo"] = <<2, 3, 5, 8>>
    /\ ~torn["foo"]
    /\ IsResponse(lastResponse["foo"])
    /\ lastResponse["foo"].current.counter = 8
    /\ lastResponse["foo"].previous.counter = 5

(* ------------------------------- C2 ------------------------------------ *)
\* C2: a call that starts with both slots absent and resolves returns
\* current.counter 2 and previous null; its only write is to 'current'
\* (counter 2), and 'previous' is still absent afterwards.
C2_FirstInvocationSeeds ==
    [][\A c \in Callers :
          (Resolves(c) /\ atStart[c] = EmptyStorage) =>
              LET n == self[c] IN
              /\ storage[n] = EmptyStorage
              /\ storage'[n]["previous"] = Undefined
              /\ Truthy(storage'[n]["current"])
              /\ storage'[n]["current"].counter = 2
              /\ lastResponse'[n] = ResponseData(storage'[n]["current"], Null)]_vars

C2_Witness ==
    /\ returned["foo"] = <<2>>
    /\ IsResponse(lastResponse["foo"])
    /\ lastResponse["foo"].current.counter = 2
    /\ lastResponse["foo"].previous = Null
    /\ storage["foo"]["current"] = lastResponse["foo"].current
    /\ storage["foo"]["previous"] = Undefined

(* ------------------------------- C3 ------------------------------------ *)
\* C3: a call that starts with 'current' present and 'previous' absent and
\* resolves returns current.counter = 1 + the old current.counter and
\* previous = the old current record; the second call on a fresh sequence
\* returns current.counter 3 and previous.counter 2.
C3_SeededUsesFallbackOne ==
    [][\A c \in Callers :
          (/\ Resolves(c)
           /\ Truthy(atStart[c]["current"])
           /\ ~Truthy(atStart[c]["previous"])) =>
              LET n == self[c] IN
              /\ lastResponse'[n].current.counter = 1 + atStart[c]["current"].counter
              /\ lastResponse'[n].previous = atStart[c]["current"]
              /\ (returned[n] = <<2>>) =>
                     /\ lastResponse'[n].current.counter = 3
                     /\ lastResponse'[n].previous.counter = 2]_vars

C3_Witness ==
    /\ returned["foo"] = <<2, 3>>
    /\ IsResponse(lastResponse["foo"])
    /\ lastResponse["foo"].current.counter = 3
    /\ lastResponse["foo"].previous # Null
    /\ lastResponse["foo"].previous.counter = 2

(* ------------------------------- C4 ------------------------------------ *)
\* C4: a call that starts with both slots present and resolves writes a
\* 'current' record whose counter is the counter of 'current' plus the
\* counter of 'previous' as they were when the call started, also after
\* failed calls.
C4_SumOfBothSlots ==
    [][\A c \in Callers :
          (/\ Resolves(c)
           /\ Truthy(atStart[c]["current"])
           /\ Truthy(atStart[c]["previous"])) =>
              storage'[self[c]]["current"].counter =
                  atStart[c]["current"].counter + atStart[c]["previous"].counter]_vars

\* after 2, 3 a call failed between its puts (both slots hold 3); the next
\* call wrote 3 + 3
C4_Witness ==
    /\ torn["foo"]
    /\ returned["foo"] = <<2, 3, 6>>
    /\ storage["foo"]["current"].counter = 6
    /\ storage["foo"]["previous"].counter = 3

(* ------------------------------- C5 ------------------------------------ *)
\* the statement of C5 as written: whenever no call is executing and
\* 'previous' is present, it is the record that was in 'current' when the
\* call that wrote today's 'current' started
C5_AsWritten ==
    \A n \in Names :
        (Quiescent(n) /\ Truthy(storage[n]["previous"])) =>
            storage[n]["previous"] = shiftedFrom[n]

\* C5 (amended): whenever 'previous' is present it is either the record that
\* was in 'current' when the call that wrote today's 'current' started, or
\* the very record now in 'current'; the latter only while a call is between
\* its two puts or after a call failed between its two puts.
C5_ShiftRegisterOrWindow ==
    \A n \in Names :
        Truthy(storage[n]["previous"]) =>
            /\ \/ storage[n]["previous"] = shiftedFrom[n]
               \/ storage[n]["previous"] = storage[n]["current"]
            /\ (storage[n]["previous"] = storage[n]["current"]) =>
                   \/ torn[n]
                   \/ \E c \in Callers : self[c] = n /\ pc[c] = "putCurrent"

\* both cases: a torn instance, and one shifted by a later successful call
C5_Witness ==
    /\ Quiescent("foo")
    /\ torn["foo"]
    /\ Truthy(storage["foo"]["previous"])
    /\ storage["foo"]["previous"] = shiftedFrom["foo"]
    /\ storage["foo"]["previous"] # storage["foo"]["current"]

(* ------------------------------- C6 ------------------------------------ *)
\* what the call of caller c alone has made of the storage it started with
OwnEffect(c) ==
    IF pc[c] = "putCurrent" /\ Truthy(atStart[c]["current"])
    THEN [atStart[c] EXCEPT !["previous"] = atStart[c]["current"]]
    ELSE atStart[c]

StrictlyIncreasing(r) == \A i \in 1..Len(r) : \A j \in 1..Len(r) : i < j => r[i] < r[j]

\* C6: calls on one instance do not interleave: at most one call per
\* instance is between its first get and its last put; until it finishes the
\* storage holds what this call alone made of the storage it started with;
\* what it read and computed is what a serial run from that storage gives;
\* and no two calls on an instance return the same current.counter.
C6_InvocationsAreSerial ==
    /\ \A c \in Callers : \A d \in Callers :
           (c # d /\ pc[c] \in Awaits /\ pc[d] \in Awaits) => self[c] # self[d]
    /\ \A c \in Callers :
           pc[c] \in Awaits => storage[self[c]] = OwnEffect(c)
    /\ \A c \in Callers :
           pc[c] \in {"putPrevious", "putCurrent"} =>
               /\ currentData[c] = atStart[c]["current"]
               /\ previousData[c] = atStart[c]["previous"]
               /\ newCurrentData[c].counter =
                      NextCounter(atStart[c]["current"], atStart[c]["previous"])
    /\ \A n \in Names : StrictlyIncreasing(returned[n])

\* a second call on the same instance is waiting while the first is between
\* its two puts
C6_Witness ==
    \E c \in Callers : \E d \in Callers :
        /\ c # d
        /\ self[c] = self[d]
        /\ pc[c] = "putCurrent"
        /\ pc[d] = "called"
        /\ Truthy(currentData[c])
        /\ Len(returned[self[c]]) >= 2

(* ------------------------------- C7 ------------------------------------ *)
\* C7: when put('current') rejects in a call that found 'current' present,
\* 'current' still holds the record it held when the call started, which is
\* the one the last successful call returned; 'previous' holds that same
\* record, and the rejection changes nothing (no rollback of 'previous').
C7_FailedFinalWriteLeavesWindow ==
    [][\A c \in Callers :
          (RejectsAt(c, {"putCurrent"}) /\ Truthy(currentData[c])) =>
              LET n == self[c] IN
              /\ storage'[n]["current"] = atStart[c]["current"]
              /\ returned[n] # <<>>
              /\ storage'[n]["current"].counter = returned[n][Len(returned[n])]
              /\ storage'[n]["previous"] = atStart[c]["current"]
              /\ storage' = storage]_vars

C7_Witness ==
    /\ lastResponse["foo"] = Rejected("putCurrent")
    /\ torn["foo"]
    /\ returned["foo"] = <<2, 3, 5>>
    /\ storage["foo"]["current"].counter = 5
    /\ storage["foo"]["previous"] = storage["foo"]["current"]

(* ------------------------------- C8 ------------------------------------ *)
\* the statement of C8 as written: a call in which a put rejects leaves both
\* slots as they were when the call started
C8_AsWritten ==
    [][\A c \in Callers :
          RejectsAt(c, {"putPrevious", "putCurrent"}) =>
              storage'[self[c]] = atStart[c]]_vars

\* C8 (amended): a call in which a put rejects leaves both slots as they
\* were when the call started, except that when the put that rejects is
\* put('current') and 'current' was present, 'previous' holds the old
\* current record.
C8_NoPartialCommitButWindow ==
    [][\A c \in Callers :
          LET n == self[c] IN
          /\ RejectsAt(c, {"putPrevious"}) => storage'[n] = atStart[c]
          /\ RejectsAt(c, {"putCurrent"}) =>
                 storage'[n] =
                     IF Truthy(atStart[c]["current"])
                     THEN [atStart[c] EXCEPT !["previous"] = atStart[c]["current"]]
                     ELSE atStart[c]]_vars

\* put('previous') rejected on an established instance: nothing moved
C8_Witness ==
    /\ lastResponse["foo"] = Rejected("putPrevious")
    /\ ~torn["foo"]
    /\ returned["foo"] = <<2, 3>>
    /\ storage["foo"]["current"].counter = 3
    /\ storage["foo"]["previous"].counter = 2

(* ------------------------------- C9 ------------------------------------ *)
\* C9: when get('current') or get('previous') rejects, the call ends there
\* (no put follows), and both slots are what they were when the call
\* started.
C9_FailedReadMutatesNothing ==
    [][\A c \in Callers :
          RejectsAt(c, {"getCurrent", "getPrevious"}) =>
              /\ pc'[c] = "idle"
              /\ storage' = storage
              /\ storage[self[c]] = atStart[c]]_vars

C9_Witness ==
    /\ lastResponse["foo"] = Rejected("getPrevious")
    /\ ~torn["foo"]
    /\ returned["foo"] = <<2, 3>>
    /\ storage["foo"]["current"].counter = 3
    /\ storage["foo"]["previous"].counter = 2

(* ------------------------------- C10 ----------------------------------- *)
\* C10: the response of a call that resolves has, as previous, the record
\* that was in 'current' when the call started (null exactly when there was
\* none) and, as current, the record the call built and stored; whenever the
\* two slots differed at the start, previous is not the record of the
\* 'previous' slot.
C10_ResponseIsOldAndNewCurrent ==
    [][\A c \in Callers :
          Resolves(c) =>
              LET n == self[c]
                  r == lastResponse'[n]
              IN
              /\ r.previous = IF Truthy(atStart[c]["current"])
                              THEN atStart[c]["current"] ELSE Null
              /\ (r.previous = Null) <=> ~Truthy(atStart[c]["current"])
              /\ r.current = newCurrentData[c]
              /\ r.current = storage'[n]["current"]
              /\ (atStart[c]["previous"] # atStart[c]["current"]) =>
                     r.previous # atStart[c]["previous"]]_vars

C10_Witness ==
    /\ IsResponse(lastResponse["foo"])
    /\ lastResponse["foo"].current.counter = 5
    /\ lastResponse["foo"].previous # Null
    /\ lastResponse["foo"].previous.counter = 3
    /\ storage["foo"]["current"] = lastResponse["foo"].current
    /\ shiftedFrom["foo"] = lastResponse["foo"].previous

(* ------------------------------- C11 ----------------------------------- *)
\* C11: the response of a call that resolves carries, as current.location,
\* the locationInfo the call was given; the record stored in 'current' has
\* that same location; and, unless it is the first call to resolve on the
\* instance, previous.location is the locationInfo given to the call that
\* resolved before it.
C11_ContextPassesThrough ==
    [][\A c \in Callers :
          Resolves(c) =>
              LET n == self[c]
                  r == lastResponse'[n]
              IN
              /\ r.current.location = locationInfo[c]
              /\ storage'[n]["current"].location = locationInfo[c]
              /\ (returned[n] # <<>>) =>
                     /\ r.previous # Null
                     /\ r.previous.location = lastContext[n]]_vars

\* two calls with different contexts: each shows up where it belongs
C11_Witness ==
    /\ returned["foo"] = <<2, 3>>
    /\ IsResponse(lastResponse["foo"])
    /\ lastResponse["foo"].current.location = "LHR"
    /\ lastResponse["foo"].previous.location = "Unknown"
    /\ storage["foo"]["current"].location = "LHR"
    /\ lastContext["foo"] = "LHR"

(* ------------------------------- C12 ----------------------------------- *)
\* C12: a call that resolves with the same locationInfo as the call that
\* resolved before it on the instance returns a current.counter strictly
\* larger than the one that call returned.
C12_NotIdempotent ==
    [][\A c \in Callers :
          (/\ Resolves(c)
           /\ returned[self[c]] # <<>>
           /\ locationInfo[c] = lastContext[self[c]]) =>
              LET n == self[c]
                  r == lastResponse'[n]
              IN
              /\ r.current.counter > returned[n][Len(returned[n])]
              /\ r.current.counter > r.previous.counter]_vars

\* the same context twice in a row, 2 then 3
C12_Witness ==
    /\ returned["foo"] = <<2, 3>>
    /\ IsResponse(lastResponse["foo"])
    /\ lastResponse["foo"].current.location = lastResponse["foo"].previous.location
    /\ lastResponse["foo"].current.counter = 3
    /\ lastResponse["foo"].previous.counter = 2

(* ------------------------------- C13 ----------------------------------- *)
\* C13 (under SpecNames): a step of a call on one name changes no slot of
\* any other name, whether the call resolves or rejects; while a call runs,
\* the storage of its instance is what the call alone made of it, whatever
\* happens on other names; and its response is computed from the slots its
\* own instance had when it started.
C13_NamesAreIsolated ==
    [][/\ \A m \in Names :
             storage'[m] # storage[m] =>
                 \E c \in Callers :
                     /\ self[c] = m
                     /\ pc[c] \in {"putPrevious", "putCurrent"}
                     /\ pc'[c] # pc[c]
       /\ \A c \in Callers :
             pc[c] \in Awaits => storage[self[c]] = OwnEffect(c)
       /\ \A c \in Callers :
             Resolves(c) =>
                 LET r == lastResponse'[self[c]] IN
                 /\ r.current.counter =
                        NextCounter(atStart[c]["current"], atStart[c]["previous"])
                 /\ r.previous = ReturnedPrevious(atStart[c]["current"])]_vars

\* two names, each at its own point of its own sequence
C13_Witness ==
    /\ returned["foo"] = <<2, 3>>
    /\ returned["bar"] = <<2>>
    /\ storage["foo"]["current"].counter = 3
    /\ storage["foo"]["previous"].counter = 2
    /\ storage["bar"]["current"].counter = 2
    /\ storage["bar"]["previous"] = Undefined

(* ------------------------------- C14 ----------------------------------- *)
\* C14: with a clock that never goes backwards, the record a call is about
\* to store has a timestamp no earlier than the record it replaces, no
\* stored timestamp is ahead of the clock, and whenever both slots are
\* present previous.timestamp <= current.timestamp.
C14_TimestampsNonDecreasing ==
    /\ \A n \in Names :
           /\ Truthy(storage[n]["current"]) => storage[n]["current"].timestamp <= clock
           /\ (Truthy(storage[n]["current"]) /\ Truthy(storage[n]["previous"])) =>
                  storage[n]["previous"].timestamp <= storage[n]["current"].timestamp
    /\ \A c \in Callers :
           (pc[c] \in {"putPrevious", "putCurrent"} /\ Truthy(currentData[c])) =>
               currentData[c].timestamp <= newCurrentData[c].timestamp

\* the clock moved between two calls
C14_Witness ==
    /\ Truthy(storage["foo"]["previous"])
    /\ storage["foo"]["previous"].timestamp = 0
    /\ storage["foo"]["current"].timestamp = 1
    /\ returned["foo"] = <<2, 3, 5>>

(* ------------------------------- C15 ----------------------------------- *)
Phase(st) ==
    IF Truthy(st["current"])
    THEN IF Truthy(st["previous"]) THEN "Established" ELSE "Seeded"
    ELSE IF Truthy(st["previous"]) THEN "Unnamed" ELSE "Empty"

AfterAdvance(ph) ==
    IF ph = "Empty" THEN "Seeded" ELSE "Established"

\* C15 (under FairSpec): no step makes a present slot absent; a call that
\* resolves takes its instance from Empty to Seeded, from Seeded to
\* Established and from Established to Established; and every call that was
\* made is delivered and ends (with a response when its storage operations
\* succeed), so no state of an instance is terminal.
C15_StateMachineNeverStops ==
    /\ [][/\ \A n \in Names : \A k \in Keys :
                Truthy(storage[n][k]) => Truthy(storage'[n][k])
          /\ \A c \in Callers :
                Resolves(c) =>
                    /\ Phase(atStart[c]) \in {"Empty", "Seeded", "Established"}
                    /\ Phase(storage'[self[c]]) = AfterAdvance(Phase(atStart[c]))]_vars
    /\ \A c \in Callers : (pc[c] = "called") ~> (pc[c] = "idle")

\* the self-loop: an established instance advanced again
C15_Witness ==
    /\ Phase(storage["foo"]) = "Established"
    /\ returned["foo"] = <<2, 3, 5>>
    /\ IsResponse(lastResponse["foo"])
    /\ shiftedFrom["foo"] = storage["foo"]["previous"]

(* ------------------------------- C16 ----------------------------------- *)
\* the storage operations of one call, in order, when 'current' was
\* present / absent
Plan(present) ==
    IF present
    THEN <<Get("current"), Get("previous"), Put("previous"), Put("current")>>
    ELSE <<Get("current"), Get("previous"), Put("current")>>

IsPrefix(a, b) ==
    /\ Len(a) <= Len(b)
    /\ \A i \in 1..Len(a) : a[i] = b[i]

\* the operation awaited at label p
OpAt(p) ==
    IF p = "getCurrent" THEN Get("current")
    ELSE IF p = "getPrevious" THEN Get("previous")
    ELSE IF p = "putPrevious" THEN Put("previous")
    ELSE Put("current")

\* C16: the operations a call has issued are a prefix, without repetition,
\* of get current, get previous, put previous (only if 'current' was
\* present), put current, the last of them being the one it awaits; a call
\* at its final await, the only one it resolves from, has issued exactly one
\* put when it started on empty storage and exactly two otherwise; and the
\* storage of an instance has no key besides 'current' and 'previous'.
C16_StorageOperationsInOrder ==
    /\ \A c \in Callers :
           pc[c] \in Awaits =>
               /\ issued[c] # <<>>
               /\ issued[c][Len(issued[c])] = OpAt(pc[c])
               /\ \/ pc[c] = "getCurrent" /\ issued[c] = <<Get("current")>>
                  \/ pc[c] # "getCurrent" /\ IsPrefix(issued[c], Plan(Truthy(currentData[c])))
               /\ pc[c] = "putCurrent" =>
                      /\ issued[c] = Plan(Truthy(atStart[c]["current"]))
                      /\ Cardinality({i \in 1..Len(issued[c]) : issued[c][i][1] = "put"}) =
                             IF atStart[c] = EmptyStorage THEN 1 ELSE 2
    /\ \A c \in Callers : pc[c] \notin Awaits => issued[c] = <<>>
    /\ \A n \in Names : DOMAIN storage[n] = {"current", "previous"}

\* a call at its final await after all four operations
C16_Witness ==
    \E c \in Callers :
        /\ pc[c] = "putCurrent"
        /\ issued[c] = <<Get("current"), Get("previous"), Put("previous"), Put("current")>>
        /\ storage[self[c]]["previous"] = currentData[c]
        /\ returned[self[c]] = <<2, 3>>

(* ------------------------------- C17 ----------------------------------- *)
\* C17: right after a call resolves, 'current' holds the record returned as
\* current, and 'previous' holds the record returned as previous, or is
\* absent when the returned previous is null.
C17_StorageMatchesResponse ==
    [][\A c \in Callers :
          Resolves(c) =>
              LET n == self[c]
                  r == lastResponse'[n]
              IN
              /\ storage'[n]["current"] = r.current
              /\ storage'[n]["previous"] =
                     IF r.previous = Null THEN Undefined ELSE r.previous]_vars

\* also on an instance that a failed call had left with two equal slots
C17_Witness ==
    /\ torn["foo"]
    /\ returned["foo"] = <<2, 4>>
    /\ IsResponse(lastResponse["foo"])
    /\ storage["foo"]["current"] = lastResponse["foo"].current
    /\ storage["foo"]["previous"] = lastResponse["foo"].previous
    /\ lastResponse["foo"].previous.counter = 2

(* ------------------------------- C18 ----------------------------------- *)
\* C18: every stored counter, and every counter about to be stored, is an
\* integer >= 2; so previousData?.counter || 1 is the counter of
\* previousData whenever previousData is present, and 1 only when it is
\* absent.
C18_CountersAtLeastTwo ==
    /\ \A n \in Names : \A k \in Keys :
           Truthy(storage[n][k]) =>
               storage[n][k].counter \in Nat /\ storage[n][k].counter >= 2
    /\ \A c \in Callers :
           pc[c] \in {"putPrevious", "putCurrent"} =>
               /\ newCurrentData[c].counter >= 2
               /\ Truthy(previousData[c]) =>
                      PrevCounter(previousData[c]) = previousData[c].counter
               /\ (PrevCounter(previousData[c]) = 1) <=> ~Truthy(previousData[c])

\* a call that read a present 'previous' on an instance a failed call left torn
C18_Witness ==
    \E c \in Callers :
        /\ pc[c] = "putCurrent"
        /\ torn[self[c]]
        /\ Truthy(previousData[c])
        /\ previousData[c].counter = 3
        /\ newCurrentData[c].counter = 6

(* ------------------------------- C19 ----------------------------------- *)
\* C19: in every reachable state, also during calls and after rejected
\* reads and writes, 'previous' is present only if 'current' is present.
C19_PreviousOnlyWithCurrent ==
    \A n \in Names :
        Truthy(storage[n]["previous"]) => Truthy(storage[n]["current"])

\* after the second call failed at its final write
C19_Witness ==
    /\ lastResponse["foo"] = Rejected("putCurrent")
    /\ returned["foo"] = <<2>>
    /\ Truthy(storage["foo"]["previous"])
    /\ storage["foo"]["previous"] = storage["foo"]["current"]

(* ------------------------------- C20 ----------------------------------- *)
\* a step in which the fetch handler answers a request whose path is not
\* '/message' and which changes the state
OtherPathRequest ==
    /\ pathname' # "/message"
    /\ \/ pathname' # pathname
       \/ lastHttp' = RunningText /\ lastHttp # RunningText

\* C20: a request with path '/message' starts exactly one call of getCounter,
\* on the instance named "foo"; a request with any other path starts none,
\* is answered with the fixed text and leaves the slots unchanged.
C20_OnlyMessageInvokesGetCounter ==
    [][/\ calls' - calls = messageRequests' - messageRequests
       /\ \A c \in Callers :
              pc[c] = "idle" /\ pc'[c] = "called" => pathname' = "/message"
       /\ messageRequests' = messageRequests + 1 =>
              /\ pathname' = "/message"
              /\ \E c \in Callers :
                     /\ pc[c] = "idle" /\ pc'[c] = "called"
                     /\ self'[c] = FetchName
                     /\ \A d \in Callers \ {c} : pc'[d] = pc[d]
       /\ OtherPathRequest =>
              /\ lastHttp' = RunningText
              /\ calls' = calls
              /\ pc' = pc
              /\ storage' = storage]_vars

\* a request for another path was answered after one '/message' request
\* had stored the first record
C20_Witness ==
    /\ pathname = "/"
    /\ lastHttp = RunningText
    /\ messageRequests = 1
    /\ calls = 1
    /\ returned["foo"] = <<2>>
    /\ storage["foo"]["current"].counter = 2
====
